---- MODULE Spec2Model ----
(***************************************************************************)
(* The role-scoped route replication scripts of src/scripts, as a state    *)
(* machine over a file tree.                                               *)
(*                                                                         *)
(* A path is a tuple of names relative to base_dir ("src/app/(app)").      *)
(* The tree fs maps every existing path to a node: a directory, or a       *)
(* regular file with its text.  A text is a sequence of tokens; the        *)
(* tokenisation is fine enough that every literal the scripts search for   *)
(* or write (the two href openers, /, a path segment, a line break, ...) is a *)
(* sequence of whole tokens, so str.replace, the `in` test, split/join and *)
(* the two regular expressions act on tokens exactly as on characters.     *)
(***************************************************************************)
EXTENDS Integers, Sequences, FiniteSets, TLC

VARIABLES
    fs,       \* the file tree under base_dir: path -> node
    pc,       \* the script that runs next, or "done"
    job,      \* the next job of that script (index into its job list)
    run,      \* which run of the pass sequence this is
    console,  \* the lines printed by the current run
    err,      \* the unhandled exception that ended the run, or "none"
    prev      \* the tree as the previous run of the sequence left it

vars == <<fs, pc, job, run, console, err, prev>>

\* How many times the whole pass sequence is run on the same tree.
MaxRuns == 2
\* The longest import list of the import-fixup inputs.
MaxSymbols == 3

--------------------------------------------------------------------------
\* Tokens

HQ == "href=\""
\* The template shape; the back quote that follows href={ is written BQ here.
HT == "href={BQ"
NL == "\n"
SP == " "

--------------------------------------------------------------------------
\* Sequences of tokens: Python's str operations

StartsWith(s, pat) ==
    Len(pat) <= Len(s) /\ SubSeq(s, 1, Len(pat)) = pat

\* pat in s
Contains(s, pat) ==
    \E i \in 1..(Len(s) - Len(pat) + 1) : SubSeq(s, i, i + Len(pat) - 1) = pat

\* s.replace(pat, rep): leftmost, non-overlapping, every occurrence
RECURSIVE Replace(_, _, _)
Replace(s, pat, rep) ==
    IF Len(s) < Len(pat) THEN s
    ELSE IF SubSeq(s, 1, Len(pat)) = pat
         THEN rep \o Replace(SubSeq(s, Len(pat) + 1, Len(s)), pat, rep)
         ELSE <<Head(s)>> \o Replace(Tail(s), pat, rep)

\* s.split('\n'): the lines of s, without the separators
RECURSIVE SplitLines(_)
SplitLines(s) ==
    IF \A i \in 1..Len(s) : s[i] # NL THEN <<s>>
    ELSE LET k == CHOOSE i \in 1..Len(s) :
                      s[i] = NL /\ \A j \in 1..(i - 1) : s[j] # NL
         IN  <<SubSeq(s, 1, k - 1)>> \o SplitLines(SubSeq(s, k + 1, Len(s)))

\* '\n'.join(lines)
RECURSIVE JoinLines(_)
JoinLines(lines) ==
    IF Len(lines) = 0 THEN <<>>
    ELSE IF Len(lines) = 1 THEN lines[1]
    ELSE lines[1] \o <<NL>> \o JoinLines(Tail(lines))

--------------------------------------------------------------------------
\* The file tree: os.path and shutil

DirNode == [dir |-> TRUE, text |-> <<>>]
FileNode(t) == [dir |-> FALSE, text |-> t]

IsPrefix(p, q) == Len(p) <= Len(q) /\ SubSeq(q, 1, Len(p)) = p

\* os.path.exists / os.path.isdir
PathExists(f, p) == p \in DOMAIN f
IsDir(f, p) == p \in DOMAIN f /\ f[p].dir

Ancestors(p) == {SubSeq(p, 1, k) : k \in 1..(Len(p) - 1)}

Ok(f) == [fs |-> f, err |-> "none"]
Raise(f, e) == [fs |-> f, err |-> e]

\* What is left of the tree without p and everything below it.
Without(f, p) == [q \in {q \in DOMAIN f : ~IsPrefix(p, q)} |-> f[q]]

\* shutil.rmtree(p): raises on a missing path and on a regular file.
Rmtree(f, p) ==
    IF ~PathExists(f, p) THEN Raise(f, "FileNotFoundError")
    ELSE IF ~f[p].dir THEN Raise(f, "NotADirectoryError")
    ELSE Ok(Without(f, p))

\* os.remove(p): raises on a missing path and on a directory.
OsRemove(f, p) ==
    IF ~PathExists(f, p) THEN Raise(f, "FileNotFoundError")
    ELSE IF f[p].dir THEN Raise(f, "IsADirectoryError")
    ELSE Ok(Without(f, p))

\* shutil.copytree(src, dst): lists src first (raising when it is missing or
\* a file), creates dst and its missing parents (raising when dst exists or a
\* parent is a file), then copies everything below src.
Copytree(f, src, dst) ==
    IF ~PathExists(f, src) THEN Raise(f, "FileNotFoundError")
    ELSE IF ~f[src].dir THEN Raise(f, "NotADirectoryError")
    ELSE IF PathExists(f, dst) THEN Raise(f, "FileExistsError")
    ELSE IF \E a \in Ancestors(dst) : PathExists(f, a) /\ ~f[a].dir
         THEN Raise(f, "NotADirectoryError")
    ELSE LET copied == {dst \o SubSeq(q, Len(src) + 1, Len(q)) :
                            q \in {q \in DOMAIN f : IsPrefix(src, q)}}
             dom == DOMAIN f \cup Ancestors(dst) \cup copied
         IN  Ok([q \in dom |->
                   IF q \in copied
                   THEN f[src \o SubSeq(q, Len(dst) + 1, Len(q))]
                   ELSE IF q \in DOMAIN f THEN f[q] ELSE DirNode])

\* The subtree below p, as relative path -> node (empty when p is missing).
Subtree(f, p) ==
    [r \in {SubSeq(q, Len(p) + 1, Len(q)) : q \in {q \in DOMAIN f : IsPrefix(p, q)}}
        |-> f[p \o r]]

\* file.endswith(".tsx"), on the last name of a path
EndsWithTsx(name) == name \in {"page.tsx", "stale.tsx"}

\* The .tsx files os.walk(d) visits: none when d is missing or a regular file.
TsxFilesUnder(f, d) ==
    IF ~IsDir(f, d) THEN {}
    ELSE {q \in DOMAIN f : IsPrefix(d, q) /\ Len(q) > Len(d) /\ ~f[q].dir
                            /\ EndsWithTsx(q[Len(q)])}

\* Read every .tsx file below d, transform its text, write it back.
RewriteTree(f, d, T(_)) ==
    LET files == TsxFilesUnder(f, d)
    IN  [q \in files |-> FileNode(T(f[q].text))] @@ f

--------------------------------------------------------------------------
\* The mapping tables

\* deep_copy_routes.py, fix_deep_links.py: roles
Roles == <<"student_assistant", "officer", "treasurer", "adviser">>
\* duplicate_globals.py: all_roles
AllRoles == <<"admin", "student_assistant", "officer", "treasurer", "adviser",
              "occupant">>

\* deep_copy_routes.py: sources, in the dict's (insertion) order
RoutesSources ==
    << [src |-> <<"occupant", "cleaning">>, roles |-> Roles],
       [src |-> <<"occupant", "evaluation">>, roles |-> Roles],
       [src |-> <<"occupant", "events">>, roles |-> Roles],
       [src |-> <<"occupant", "payments">>, roles |-> Roles],
       [src |-> <<"admin", "fines">>, roles |-> <<"student_assistant">>],
       [src |-> <<"admin", "finance", "maintenance">>,
        roles |-> <<"student_assistant", "adviser">>],
       [src |-> <<"admin", "finance", "events">>, roles |-> <<"treasurer">>],
       [src |-> <<"admin", "finance", "expenses">>, roles |-> <<"officer">>] >>

\* deep_copy_remaining_modules.py: modules_to_copy (every source is occupant/<module>)
RemainingRoles ==
    <<"student_assistant", "treasurer", "officer", "adviser", "admin">>
ModulesToCopy ==
    << [src |-> <<"occupant", "cleaning">>, roles |-> RemainingRoles],
       [src |-> <<"occupant", "events">>, roles |-> RemainingRoles],
       [src |-> <<"occupant", "payments">>, roles |-> RemainingRoles] >>

\* duplicate_globals.py: sources
GlobalsSources ==
    << [src |-> <<"reporting">>, roles |-> AllRoles],
       [src |-> <<"profile">>, roles |-> AllRoles],
       [src |-> <<"settings">>, roles |-> AllRoles],
       [src |-> <<"ai">>,
        roles |-> <<"admin", "student_assistant", "officer", "treasurer", "adviser">>],
       [src |-> <<"admin", "occupants">>, roles |-> <<"student_assistant", "adviser">>],
       [src |-> <<"admin", "rooms">>, roles |-> <<"student_assistant", "adviser">>] >>

\* duplicate_globals.py: the roots removed at the end
GlobalRoots == <<"reporting", "profile", "settings", "ai">>

\* duplicate_remaining.py: sources
RemainingSources ==
    << [src |-> <<"occupant", "committees">>, roles |-> <<"admin">>],
       [src |-> <<"admin", "fines">>, roles |-> <<"student_assistant">>],
       [src |-> <<"admin", "finance">>,
        roles |-> <<"treasurer", "officer", "student_assistant", "adviser">>] >>

\* final_cleanup.py: admin_wrappers
AdminWrappers == <<"events", "cleaning", "payments">>

\* The (source, role) pairs of a table in loop order; first marks the pair at
\* which the outer loop tests the source.
RECURSIVE JobsOf(_)
JobsOf(table) ==
    IF Len(table) = 0 THEN <<>>
    ELSE [i \in 1..Len(table[1].roles) |->
             [src |-> table[1].src, role |-> table[1].roles[i], first |-> i = 1]]
         \o JobsOf(Tail(table))

Last(s) == s[Len(s)]

\* source.split("/")[-1]
ModuleName(src) == <<Last(src)>>

\* deep_copy_routes.py: module_name / module_path: the last name, or for a
\* source with "finance" in it what follows "admin/"
RoutesModulePath(src) ==
    IF \E i \in 1..Len(src) : src[i] = "finance"
    THEN LET k == CHOOSE i \in 1..Len(src) :
                      src[i] = "admin" /\ \A j \in (i + 1)..Len(src) : src[j] # "admin"
         IN  SubSeq(src, k + 1, Len(src))
    ELSE ModuleName(src)

\* source.startswith(role + "/")
InsideRole(src, role) == Len(src) > 1 /\ src[1] = role

--------------------------------------------------------------------------
\* One replication job

\* deep_copy_routes.py, duplicate_globals.py, duplicate_remaining.py:
\* if os.path.exists(target_dir): shutil.rmtree(target_dir)
RemoveByRmtree(f, dst) ==
    IF PathExists(f, dst) THEN Rmtree(f, dst) ELSE Ok(f)

\* deep_copy_remaining_modules.py, final_cleanup.py:
\* rmtree for a directory, os.remove for anything else that exists
RemoveByType(f, dst) ==
    IF PathExists(f, dst)
    THEN IF IsDir(f, dst) THEN Rmtree(f, dst) ELSE OsRemove(f, dst)
    ELSE Ok(f)

\* Remove the target if present, then copy: what every job does once it has
\* decided to copy.  An exception of the removal leaves the copy undone.
RemoveThenCopy(removed, src, dst) ==
    IF removed.err # "none" THEN removed ELSE Copytree(removed.fs, src, dst)

Warning(src) == <<"Warning: Source not found", src>>
DeepCopied(src, dst) == <<"Deep copied", src, dst>>

\* The outcome of a job: the tree, the exception if any, the lines printed.
Outcome(res, lines) ==
    [fs |-> res.fs, err |-> res.err,
     out |-> IF res.err = "none" THEN lines ELSE <<>>]

\* deep_copy_routes.py: one (source, role) pair of the copy loop
RoutesJob(f, j) ==
    LET dst == <<j.role>> \o RoutesModulePath(j.src)
    IN  IF ~PathExists(f, j.src)
        THEN Outcome(Ok(f), IF j.first THEN <<Warning(j.src)>> ELSE <<>>)
        ELSE Outcome(RemoveThenCopy(RemoveByRmtree(f, dst), j.src, dst),
                     <<DeepCopied(j.src, dst)>>)

\* GlobalsJob with a target that exists left as it is instead of replaced
GlobalsJobKeepingTarget(f, j) ==
    LET dst == <<j.role>> \o ModuleName(j.src)
    IN  IF ~PathExists(f, j.src)
        THEN Outcome(Ok(f), IF j.first THEN <<Warning(j.src)>> ELSE <<>>)
        ELSE IF InsideRole(j.src, j.role) \/ PathExists(f, dst) THEN Outcome(Ok(f), <<>>)
        ELSE Outcome(Copytree(f, j.src, dst), <<DeepCopied(j.src, dst)>>)

\* duplicate_globals.py: one (source, role) pair of the copy loop
GlobalsJob(f, j) ==
    LET dst == <<j.role>> \o ModuleName(j.src)
    IN  IF ~PathExists(f, j.src)
        THEN Outcome(Ok(f), IF j.first THEN <<Warning(j.src)>> ELSE <<>>)
        ELSE IF InsideRole(j.src, j.role) THEN Outcome(Ok(f), <<>>)
        ELSE Outcome(RemoveThenCopy(RemoveByRmtree(f, dst), j.src, dst),
                     <<DeepCopied(j.src, dst)>>)

\* duplicate_globals.py: removal of one original top-level shared directory
GlobalRootRemoval(f, root) ==
    IF PathExists(f, <<root>>)
    THEN Outcome(Rmtree(f, <<root>>), <<<<"Removed original global root", <<root>>>>>>)
    ELSE Outcome(Ok(f), <<>>)

\* duplicate_remaining.py: one (source, role) pair of the copy loop
RemainingJob(f, j) ==
    LET dst == <<j.role>> \o ModuleName(j.src)
    IN  IF ~PathExists(f, j.src)
        THEN Outcome(Ok(f), IF j.first THEN <<Warning(j.src)>> ELSE <<>>)
        ELSE IF InsideRole(j.src, j.role) THEN Outcome(Ok(f), <<>>)
        ELSE Outcome(RemoveThenCopy(RemoveByRmtree(f, dst), j.src, dst),
                     <<DeepCopied(j.src, dst)>>)

\* deep_copy_remaining_modules.py: content.replace of the copied files
RemainingModulesText(role, module, c) ==
    Replace(c, <<HQ, "/", "occupant", "/", module>>, <<HQ, "/", role, "/", module>>)

\* deep_copy_remaining_modules.py: one (module, role) pair: copy, then fix the
\* links of the directory just copied
RemainingModulesJob(f, j) ==
    LET module == Last(j.src)
        dst == <<j.role, module>>
        copy == RemoveThenCopy(RemoveByType(f, dst), j.src, dst)
        T(c) == RemainingModulesText(j.role, module, c)
    IN  IF ~PathExists(f, j.src)
        THEN Outcome(Ok(f), IF j.first THEN <<Warning(j.src)>> ELSE <<>>)
        ELSE IF copy.err # "none" THEN Outcome(copy, <<>>)
        ELSE Outcome(Ok(RewriteTree(copy.fs, dst, T)), <<DeepCopied(j.src, dst)>>)

\* final_cleanup.py: deletion of the legacy root occupants
LegacyRootRemoval(f) ==
    IF PathExists(f, <<"occupants">>)
    THEN Outcome(Rmtree(f, <<"occupants">>), <<<<"Deleted legacy global root", <<"occupants">>>>>>)
    ELSE Outcome(Ok(f), <<>>)

\* final_cleanup.py: one module of the admin_wrappers copy loop: the target is
\* removed and the copy attempted without a test of the source
AdminWrapperJob(f, module) ==
    LET src == <<"occupant", module>>
        dst == <<"admin", module>>
    IN  Outcome(RemoveThenCopy(RemoveByType(f, dst), src, dst),
                <<DeepCopied(src, dst)>>)

\* final_cleanup.py: content.replace of the cloned admin files
AdminWrapperText(module, c) ==
    Replace(c, <<HQ, "/", "occupant", "/", module>>, <<HQ, "/", "admin", "/", module>>)

\* final_cleanup.py: the link replacement of one cloned admin module
AdminWrapperLinks(f, module) ==
    LET T(c) == AdminWrapperText(module, c)
    IN  RewriteTree(f, <<"admin", module>>, T)

--------------------------------------------------------------------------
\* cleanup_shallow_wrappers (deep_copy_routes.py)

EXPORT_DEFAULT == "export default"
PAGE_FROM == "Page from"

\* f.read() on a file object at position pos: the rest of the text, and the
\* position moves to the end.
FileRead(text, pos) ==
    [data |-> SubSeq(text, pos + 1, Len(text)), pos |-> Len(text)]

\* "export default" in f.read() and "Page from" in f.read(): the second
\* operand is evaluated, on a second read of the same file object, only when
\* the first holds.
LooksLikeAlias(text) ==
    LET r1 == FileRead(text, 0)
    IN  IF Contains(r1.data, <<EXPORT_DEFAULT>>)
        THEN Contains(FileRead(text, r1.pos).data, <<PAGE_FROM>>)
        ELSE FALSE

\* The body of the loops for one (source, role) pair
CleanupWrapper(f, j) ==
    LET target_dir == <<j.role>> \o RoutesModulePath(j.src)
        page_file == target_dir \o <<"page.tsx">>
    IN  IF PathExists(f, target_dir) /\ PathExists(f, page_file)
        THEN IF f[page_file].dir
             THEN Outcome(Raise(f, "IsADirectoryError"), <<>>)
             ELSE IF LooksLikeAlias(f[page_file].text)
                  THEN Outcome(OsRemove(f, page_file),
                               <<<<"Removed shallow alias", page_file>>>>)
                  ELSE Outcome(Ok(f), <<>>)
        ELSE Outcome(Ok(f), <<>>)

\* A whole loop of jobs run to its end or to the first exception.
RunJobs(f, jobs, Body(_, _)) ==
    LET after[i \in 0..Len(jobs)] ==
            IF i = 0 THEN [fs |-> f, err |-> "none", out |-> <<>>]
            ELSE LET before == after[i - 1]
                 IN  IF before.err # "none" THEN before
                     ELSE LET r == Body(before.fs, jobs[i])
                          IN  [fs |-> r.fs, err |-> r.err, out |-> before.out \o r.out]
    IN  after[Len(jobs)]

cleanup_shallow_wrappers(f) == RunJobs(f, JobsOf(RoutesSources), CleanupWrapper)

--------------------------------------------------------------------------
\* The link-fix scripts: the ordered content.replace calls of each

\* fix_deep_links.py
DeepLinkModules ==
    << <<"cleaning">>, <<"evaluation">>, <<"events">>, <<"payments">>, <<"fines">>,
       <<"finance", "maintenance">>, <<"finance", "events">>, <<"finance", "expenses">> >>

\* FixDeepLinksText with the evaluation rule matching /evaluation/ anywhere
\* in a path instead of right after the template opener
FixDeepLinksTextUnanchored(role, c) ==
    LET c1 == Replace(c,  <<HQ, "/", "occupant", "/">>, <<HQ, "/", role, "/">>)
        c2 == Replace(c1, <<HT, "/", "occupant", "/">>, <<HT, "/", role, "/">>)
        c3 == Replace(c2, <<HQ, "/", "admin", "/">>, <<HQ, "/", role, "/">>)
        c4 == Replace(c3, <<HT, "/", "admin", "/">>, <<HT, "/", role, "/">>)
        c5 == Replace(c4, <<"/", "evaluation", "/">>, <<"/", role, "/", "evaluation", "/">>)
        c6 == Replace(c5, <<HQ, "/", role, "/", "occupants">>,
                          <<HQ, "/", "admin", "/", "occupants">>)
    IN  c6

FixDeepLinksText(role, c) ==
    LET c1 == Replace(c,  <<HQ, "/", "occupant", "/">>, <<HQ, "/", role, "/">>)
        c2 == Replace(c1, <<HT, "/", "occupant", "/">>, <<HT, "/", role, "/">>)
        c3 == Replace(c2, <<HQ, "/", "admin", "/">>, <<HQ, "/", role, "/">>)
        c4 == Replace(c3, <<HT, "/", "admin", "/">>, <<HT, "/", role, "/">>)
        c5 == Replace(c4, <<HT, "/", "evaluation", "/">>,
                          <<HT, "/", role, "/", "evaluation", "/">>)
        c6 == Replace(c5, <<HQ, "/", role, "/", "occupants">>,
                          <<HQ, "/", "admin", "/", "occupants">>)
    IN  c6

\* fix_global_links.py
GlobalLinkRoles ==
    <<"student_assistant", "officer", "treasurer", "adviser", "admin", "occupant">>
GlobalLinkModules ==
    << <<"reporting">>, <<"profile">>, <<"settings">>, <<"ai">>, <<"occupants">>,
       <<"rooms">> >>

FixGlobalLinksText(role, c) ==
    LET c1 == Replace(c,  <<HQ, "/", "reporting">>, <<HQ, "/", role, "/", "reporting">>)
        c2 == Replace(c1, <<HQ, "/", "profile">>, <<HQ, "/", role, "/", "profile">>)
        c3 == Replace(c2, <<HQ, "/", "settings">>, <<HQ, "/", role, "/", "settings">>)
        c4 == Replace(c3, <<HQ, "/", "ai">>, <<HQ, "/", role, "/", "ai">>)
        c5 == Replace(c4, <<HQ, "/", "admin", "/", "occupants">>,
                          <<HQ, "/", role, "/", "occupants">>)
        c6 == Replace(c5, <<HT, "/", "admin", "/", "occupants", "/">>,
                          <<HT, "/", role, "/", "occupants", "/">>)
        c7 == Replace(c6, <<HQ, "/", "admin", "/", "rooms">>,
                          <<HQ, "/", role, "/", "rooms">>)
    IN  c7

\* fix_committees_fines.py
RolesWithFinance == <<"treasurer", "officer", "student_assistant", "adviser">>

FixFinanceText(role, c) ==
    Replace(c, <<HQ, "/", "admin", "/", "finance">>, <<HQ, "/", role, "/", "finance">>)

FixAdminCommitteesText(c) ==
    Replace(c, <<HQ, "/", "occupant", "/", "committees">>,
               <<HQ, "/", "admin", "/", "committees">>)

FixSaFinesText(c) ==
    Replace(c, <<HQ, "/", "admin", "/", "fines">>,
               <<HQ, "/", "student_assistant", "/", "fines">>)

\* The (role, module) directories of a link-fix script, roles outermost.
RECURSIVE Pairs(_, _)
Pairs(roles, modules) ==
    IF Len(roles) = 0 THEN <<>>
    ELSE [i \in 1..Len(modules) |-> [role |-> roles[1], module |-> modules[i]]]
         \o Pairs(Tail(roles), modules)

\* fix_deep_links.py: one (role, module) directory
FixDeepLinksDir(f, j) ==
    LET T(c) == FixDeepLinksText(j.role, c)
    IN  Outcome(Ok(RewriteTree(f, <<j.role>> \o j.module, T)), <<>>)

\* fix_global_links.py: one (role, module) directory
FixGlobalLinksDir(f, j) ==
    LET T(c) == FixGlobalLinksText(j.role, c)
    IN  Outcome(Ok(RewriteTree(f, <<j.role>> \o j.module, T)), <<>>)

\* fix_committees_fines.py: one role's finance directory
FixFinanceDir(f, role) ==
    LET T(c) == FixFinanceText(role, c)
    IN  Outcome(Ok(RewriteTree(f, <<role, "finance">>, T)), <<>>)

\* for role in roles: for mod in modules: the body on every (role, module)
RunRoleModules(f, roles, modules, Body(_, _)) ==
    LET OneRole(g, role) ==
            RunJobs(g, [i \in 1..Len(modules) |-> [role |-> role, module |-> modules[i]]],
                    Body)
    IN  RunJobs(f, roles, OneRole)

\* The three scripts, whole
fix_deep_links(f) == RunRoleModules(f, Roles, DeepLinkModules, FixDeepLinksDir).fs

fix_global_links(f) ==
    RunRoleModules(f, GlobalLinkRoles, GlobalLinkModules, FixGlobalLinksDir).fs

fix_committees_fines(f) ==
    LET f1 == RunJobs(f, RolesWithFinance, FixFinanceDir).fs
        f2 == RewriteTree(f1, <<"admin", "committees">>, FixAdminCommitteesText)
    IN  RewriteTree(f2, <<"student_assistant", "fines">>, FixSaFinesText)

--------------------------------------------------------------------------
\* fix_unused_imports.py

FilesToFix ==
    << <<"adviser", "payments", "page.tsx">>,
       <<"occupant", "payments", "page.tsx">>,
       <<"officer", "payments", "page.tsx">>,
       <<"student_assistant", "payments", "page.tsx">>,
       <<"treasurer", "payments", "page.tsx">> >>

\* The token "next/navigation" with its double quotes
NAV == "\"next/navigation\""
\* Another module, quoted alike
OTHER_MODULE == "\"next/router\""

\* The tokens that contain the text redirect
RedirectTexts == {"redirect", "redirectTo"}

\* The tokens that begin and end with something other than a letter, a digit
\* or an underscore; every other token is one word, and \b holds between a
\* word and one of these or an end of the line.
NonWords ==
    {SP, NL, ",", "{", "}", ";", "/", "//", "\"", "BQ}", "${id}", HQ, HT, NAV,
     OTHER_MODULE}
IsWord(t) == t \notin NonWords

\* The index of the first token after position i that is not white space
\* (Len(s) + 1 when there is none): where \s* stops.
AfterSpaces(s, i) ==
    IF \E k \in (i + 1)..Len(s) : s[k] # SP
    THEN CHOOSE k \in (i + 1)..Len(s) :
             s[k] # SP /\ \A m \in (i + 1)..(k - 1) : s[m] = SP
    ELSE Len(s) + 1

\* ,\s*redirect\b at position i: the index of the match's last token, or 0
CommaRedirectAt(s, i) ==
    LET k == AfterSpaces(s, i)
    IN  IF s[i] = "," /\ k <= Len(s) /\ s[k] = "redirect"
           /\ (k = Len(s) \/ ~IsWord(s[k + 1]))
        THEN k ELSE 0

\* \bredirect\s*, at position i: the index of the match's last token, or 0
RedirectCommaAt(s, i) ==
    LET k == AfterSpaces(s, i)
    IN  IF s[i] = "redirect" /\ (i = 1 \/ ~IsWord(s[i - 1]))
           /\ k <= Len(s) /\ s[k] = ","
        THEN k ELSE 0

\* re.sub(r',\s*redirect\b|\bredirect\s*,', '', line): from the left, at each
\* position the first alternative is tried before the second, and the scan
\* resumes after a match.
RECURSIVE SubRedirectFrom(_, _)
SubRedirectFrom(s, i) ==
    IF i > Len(s) THEN <<>>
    ELSE IF CommaRedirectAt(s, i) # 0 THEN SubRedirectFrom(s, CommaRedirectAt(s, i) + 1)
    ELSE IF RedirectCommaAt(s, i) # 0 THEN SubRedirectFrom(s, RedirectCommaAt(s, i) + 1)
    ELSE <<s[i]>> \o SubRedirectFrom(s, i + 1)

\* {\s*redirect\s*} at position i: the index of the match's last token, or 0
BracedRedirectAt(s, i) ==
    LET k == AfterSpaces(s, i)
        e == IF k <= Len(s) THEN AfterSpaces(s, k) ELSE Len(s) + 1
    IN  IF s[i] = "{" /\ k <= Len(s) /\ s[k] = "redirect" /\ e <= Len(s) /\ s[e] = "}"
        THEN e ELSE 0

\* re.sub(r'{\s*redirect\s*}', '{}', line)
RECURSIVE SubBracedFrom(_, _)
SubBracedFrom(s, i) ==
    IF i > Len(s) THEN <<>>
    ELSE IF BracedRedirectAt(s, i) # 0
         THEN <<"{", "}">> \o SubBracedFrom(s, BracedRedirectAt(s, i) + 1)
    ELSE <<s[i]>> \o SubBracedFrom(s, i + 1)

\* line.strip()
RECURSIVE Strip(_)
Strip(s) ==
    IF Len(s) = 0 THEN s
    ELSE IF Head(s) = SP THEN Strip(Tail(s))
    ELSE IF Last(s) = SP THEN Strip(SubSeq(s, 1, Len(s) - 1))
    ELSE s

BareRedirectImport ==
    <<"import", SP, "{", SP, "redirect", SP, "}", SP, "from", SP, NAV, ";">>

\* What the loop body makes of one line: <<>> when the line is dropped
\* (continue), else the one line appended to new_lines.
FixImportLine(line) ==
    IF Contains(line, <<"from", SP, NAV>>)
       /\ \E i \in 1..Len(line) : line[i] \in RedirectTexts
    THEN IF Strip(line) = BareRedirectImport THEN <<>>
         ELSE LET l1 == SubRedirectFrom(line, 1)
                  l2 == SubBracedFrom(l1, 1)
              IN  IF Contains(l2, <<"{", "}">>) THEN <<>> ELSE <<l2>>
    ELSE <<line>>

RECURSIVE FixImportLines(_)
FixImportLines(lines) ==
    IF Len(lines) = 0 THEN <<>>
    ELSE FixImportLine(lines[1]) \o FixImportLines(Tail(lines))

\* content -> '\n'.join(new_lines)
FixUnusedImportsText(content) == JoinLines(FixImportLines(SplitLines(content)))

\* One file of files_to_fix
FixUnusedImportsFile(f, target_file) ==
    IF ~PathExists(f, target_file) THEN Outcome(Ok(f), <<>>)
    ELSE IF f[target_file].dir THEN Outcome(Raise(f, "IsADirectoryError"), <<>>)
    ELSE Outcome(Ok([f EXCEPT ![target_file] =
                        FileNode(FixUnusedImportsText(f[target_file].text))]),
                 <<<<"Fixed unused redirect import in", target_file>>>>)

--------------------------------------------------------------------------
\* The trees the sequence starts from

\* The references and lines a page may hold
RefQuotedOccupant == <<HQ, "/", "occupant", "/", "payments", "/", "history", "\"">>
RefTemplateOccupant == <<HT, "/", "occupant", "/", "cleaning", "/", "${id}", "BQ}">>
RefQuotedFinance == <<HQ, "/", "admin", "/", "finance", "/", "expenses", "\"">>
RefTemplateFinance == <<HT, "/", "admin", "/", "finance", "/", "${id}", "BQ}">>
RefQuotedOccupants == <<HQ, "/", "admin", "/", "occupants", "/", "list", "\"">>
RefTemplateOccupants == <<HT, "/", "admin", "/", "occupants", "/", "${id}", "BQ}">>
RefTemplateEvaluation == <<HT, "/", "evaluation", "/", "${id}", "/", "rate", "BQ}">>
RefQuotedReporting == <<HQ, "/", "reporting", "\"">>
RefQuotedCommittees == <<HQ, "/", "occupant", "/", "committees", "\"">>
RefQuotedFines == <<HQ, "/", "admin", "/", "fines", "/", "new", "\"">>
ImportRedirectRouter ==
    <<"import", SP, "{", SP, "redirect", ",", SP, "useRouter", SP, "}", SP, "from",
      SP, NAV, ";">>

\* The bodies a source page is given
Probes ==
    { RefQuotedOccupant, RefTemplateOccupant, RefQuotedFinance, RefTemplateFinance,
      RefQuotedOccupants, RefTemplateOccupants, RefTemplateEvaluation,
      RefQuotedReporting, RefQuotedCommittees, RefQuotedFines, ImportRedirectRouter,
      RefQuotedOccupants \o <<NL>> \o RefQuotedFinance,
      RefTemplateEvaluation \o <<NL>> \o RefTemplateEvaluation,
      BareRedirectImport \o <<NL>> \o RefQuotedOccupant }

\* The directories the scripts copy from or delete
SourceDirs ==
    { <<"occupant", "cleaning">>, <<"occupant", "evaluation">>, <<"occupant", "events">>,
      <<"occupant", "payments">>, <<"occupant", "committees">>,
      <<"admin", "fines">>, <<"admin", "finance">>, <<"admin", "finance", "maintenance">>,
      <<"admin", "finance", "events">>, <<"admin", "finance", "expenses">>,
      <<"admin", "occupants">>, <<"admin", "rooms">>,
      <<"reporting">>, <<"profile">>, <<"settings">>, <<"ai">>, <<"occupants">> }

\* A page's text: a comment naming the directory it was written for, then the body
PageText(d, body) == <<"//">> \o d \o <<NL>> \o body

\* The tree with every role, every source directory with its page.tsx, and in
\* occupant/cleaning a file of another extension and a sub-route.
FullTree(body) ==
    LET paths == {<<AllRoles[i]>> : i \in 1..Len(AllRoles)} \cup SourceDirs
                 \cup {d \o <<"page.tsx">> : d \in SourceDirs}
                 \cup { <<"occupant", "cleaning", "notes.md">>,
                        <<"occupant", "cleaning", "[id]">>,
                        <<"occupant", "cleaning", "[id]", "page.tsx">> }
    IN  [p \in paths |->
           IF Last(p) = "page.tsx"
           THEN FileNode(PageText(SubSeq(p, 1, Len(p) - 1), body))
           ELSE IF Last(p) = "notes.md" THEN FileNode(body)
           ELSE DirNode]

\* The source directories one of which may be missing
Missable ==
    SourceDirs \ { <<"admin", "finance", "maintenance">>, <<"admin", "finance", "events">>,
                   <<"admin", "finance", "expenses">> }

\* The targets that may exist before the first run, and as what
PreTargets ==
    { <<"student_assistant", "cleaning">>, <<"admin", "events">>,
      <<"officer", "reporting">>, <<"treasurer", "finance">>, <<"admin", "committees">> }
PreKinds == {"stale", "file", "alias", "half"}

AliasText == <<EXPORT_DEFAULT, SP, "CleaningPage", ";", NL, "import", SP, PAGE_FROM>>
HalfAliasText == <<EXPORT_DEFAULT, SP, "function", SP, "Page">>

\* The tree f with target t put there as kind k
WithTarget(f, t, k, body) ==
    IF k = "file" THEN (t :> FileNode(body)) @@ f
    ELSE IF k = "stale"
         THEN (t :> DirNode) @@ ((t \o <<"stale.tsx">>) :> FileNode(body)) @@ f
    ELSE IF k = "alias"
         THEN (t :> DirNode) @@ ((t \o <<"page.tsx">>) :> FileNode(AliasText)) @@ f
    ELSE (t :> DirNode) @@ ((t \o <<"page.tsx">>) :> FileNode(HalfAliasText)) @@ f

NoPath == <<>>

\* A missing source and an existing target are combined only for one module
Related(m, t) == m = NoPath \/ t = NoPath \/ Last(m) = Last(t)

\* The initial trees, each with the choices that make it
InitialChoices ==
    { c \in [body : Probes, miss : Missable \cup {NoPath},
             target : PreTargets \cup {NoPath}, kind : PreKinds] :
        /\ Related(c.miss, c.target)
        /\ c.target = NoPath => c.kind = "stale" }

TreeOf(c) ==
    LET f0 == FullTree(c.body)
        f1 == IF c.miss = NoPath THEN f0 ELSE Without(f0, c.miss)
    IN  IF c.target = NoPath THEN f1 ELSE WithTarget(f1, c.target, c.kind, c.body)

Init ==
    /\ fs \in {TreeOf(c) : c \in InitialChoices}
    /\ pc = "cleanup_shallow_wrappers"
    /\ job = 1
    /\ run = 1
    /\ console = <<>>
    /\ err = "none"
    /\ prev = <<>>

--------------------------------------------------------------------------
\* The scripts, in the order of the pass sequence

\* One job of a loop: the tree and the console take the job's outcome; an
\* exception ends the run where it is raised, else the loop moves on and after
\* its last job the next phase starts.
Step(jobs, Body(_, _), next) ==
    /\ err = "none"
    /\ LET r == Body(fs, jobs[job])
       IN  /\ fs' = r.fs
           /\ console' = console \o r.out
           /\ err' = r.err
           /\ IF r.err # "none" THEN pc' = pc /\ job' = job
              ELSE IF job < Len(jobs) THEN pc' = pc /\ job' = job + 1
              ELSE pc' = next /\ job' = 1
    /\ UNCHANGED <<run, prev>>

\* A phase that is one whole pass over the tree and raises nothing
Whole(f, next) ==
    /\ err = "none"
    /\ fs' = f
    /\ pc' = next
    /\ job' = 1
    /\ UNCHANGED <<run, console, err, prev>>

\* deep_copy_routes.py, step 1
CleanupShallowWrappers ==
    /\ pc = "cleanup_shallow_wrappers"
    /\ err = "none"
    /\ LET r == cleanup_shallow_wrappers(fs)
       IN  /\ fs' = r.fs
           /\ console' = console \o r.out
           /\ err' = r.err
           /\ pc' = IF r.err = "none" THEN "deep_copy_routes" ELSE pc
    /\ job' = 1
    /\ UNCHANGED <<run, prev>>

\* deep_copy_routes.py, step 2
DeepCopyRoutes ==
    /\ pc = "deep_copy_routes"
    /\ Step(JobsOf(RoutesSources), RoutesJob, "deep_copy_remaining_modules")

\* deep_copy_remaining_modules.py
DeepCopyRemainingModules ==
    /\ pc = "deep_copy_remaining_modules"
    /\ Step(JobsOf(ModulesToCopy), RemainingModulesJob, "duplicate_globals")

\* duplicate_globals.py, the copy loop
DuplicateGlobals ==
    /\ pc = "duplicate_globals"
    /\ Step(JobsOf(GlobalsSources), GlobalsJob, "remove_global_roots")

\* duplicate_globals.py, the removal loop
RemoveGlobalRoots ==
    /\ pc = "remove_global_roots"
    /\ Step(GlobalRoots, GlobalRootRemoval, "duplicate_remaining")

\* duplicate_remaining.py
DuplicateRemaining ==
    /\ pc = "duplicate_remaining"
    /\ Step(JobsOf(RemainingSources), RemainingJob, "fix_deep_links")

\* fix_deep_links.py
FixDeepLinks ==
    /\ pc = "fix_deep_links"
    /\ Whole(fix_deep_links(fs), "fix_global_links")

\* fix_global_links.py
FixGlobalLinks ==
    /\ pc = "fix_global_links"
    /\ Whole(fix_global_links(fs), "fix_committees_fines")

\* fix_committees_fines.py
FixCommitteesFines ==
    /\ pc = "fix_committees_fines"
    /\ Whole(fix_committees_fines(fs), "delete_legacy_root")

\* final_cleanup.py, step 1
DeleteLegacyRoot ==
    /\ pc = "delete_legacy_root"
    /\ err = "none"
    /\ LET r == LegacyRootRemoval(fs)
       IN  /\ fs' = r.fs
           /\ console' = console \o r.out
           /\ err' = r.err
           /\ pc' = IF r.err = "none" THEN "final_cleanup" ELSE pc
    /\ job' = 1
    /\ UNCHANGED <<run, prev>>

\* final_cleanup.py, step 2
FinalCleanupCopy ==
    /\ pc = "final_cleanup"
    /\ Step(AdminWrappers, AdminWrapperJob, "final_cleanup_links")

\* final_cleanup.py, step 3
FinalCleanupLinks ==
    /\ pc = "final_cleanup_links"
    /\ LET Body(f, module) == Outcome(Ok(AdminWrapperLinks(f, module)), <<>>)
       IN  Step(AdminWrappers, Body, "fix_unused_imports")

\* fix_unused_imports.py
FixUnusedImports ==
    /\ pc = "fix_unused_imports"
    /\ Step(FilesToFix, FixUnusedImportsFile, "done")

\* The whole sequence is run again on the tree the last run left.
Rerun ==
    /\ pc = "done"
    /\ err = "none"
    /\ run < MaxRuns
    /\ prev' = fs
    /\ run' = run + 1
    /\ pc' = "cleanup_shallow_wrappers"
    /\ job' = 1
    /\ console' = <<>>
    /\ UNCHANGED <<fs, err>>

Next ==
    \/ CleanupShallowWrappers
    \/ DeepCopyRoutes
    \/ DeepCopyRemainingModules
    \/ DuplicateGlobals
    \/ RemoveGlobalRoots
    \/ DuplicateRemaining
    \/ FixDeepLinks
    \/ FixGlobalLinks
    \/ FixCommitteesFines
    \/ DeleteLegacyRoot
    \/ FinalCleanupCopy
    \/ FinalCleanupLinks
    \/ FixUnusedImports
    \/ Rerun

Spec == Init /\ [][Next]_vars

--------------------------------------------------------------------------
\* What the properties below speak of

ReplicationPhases ==
    {"deep_copy_routes", "deep_copy_remaining_modules", "duplicate_globals",
     "duplicate_remaining", "final_cleanup"}

\* The source and the target of the k-th replication job of a phase
ReplicationAt(phase, k) ==
    IF phase = "deep_copy_routes"
    THEN LET j == JobsOf(RoutesSources)[k]
         IN  [src |-> j.src, dst |-> <<j.role>> \o RoutesModulePath(j.src)]
    ELSE IF phase = "deep_copy_remaining_modules"
    THEN LET j == JobsOf(ModulesToCopy)[k]
         IN  [src |-> j.src, dst |-> <<j.role>> \o ModuleName(j.src)]
    ELSE IF phase = "duplicate_globals"
    THEN LET j == JobsOf(GlobalsSources)[k]
         IN  [src |-> j.src, dst |-> <<j.role>> \o ModuleName(j.src)]
    ELSE IF phase = "duplicate_remaining"
    THEN LET j == JobsOf(RemainingSources)[k]
         IN  [src |-> j.src, dst |-> <<j.role>> \o ModuleName(j.src)]
    ELSE [src |-> <<"occupant", AdminWrappers[k]>>, dst |-> <<"admin", AdminWrappers[k]>>]

\* A replication job is about to run
AtReplicationJob == pc \in ReplicationPhases /\ err = "none"
TheJob == ReplicationAt(pc, job)

\* The paths below p with the kind of each: what a tree holds, text aside
Shape(f, p) == LET t == Subtree(f, p) IN [r \in DOMAIN t |-> t[r].dir]

Printed(line) == \E i \in 1..Len(console) : console[i] = line

--------------------------------------------------------------------------
\* C1: running the full pass sequence a second time on the tree the first run
\* left yields a tree identical to that tree.
C1_SecondRunChangesNothing ==
    (pc = "done" /\ run >= 2) => fs = prev

--------------------------------------------------------------------------
\* C2: in every replication job of every script, a missing source directory
\* makes the job a skip with the warning "Source X not found": nothing is
\* changed, no exception ends the run, and the jobs after it still execute.
C2_MissingSourceIsSkipped ==
    [][ (AtReplicationJob /\ ~PathExists(fs, TheJob.src))
        => /\ err' = "none"
           /\ fs' = fs
           /\ \E i \in 1..Len(console') : console'[i] = Warning(TheJob.src)
      ]_vars

--------------------------------------------------------------------------
\* C4: in every replication job whose source exists, a target that already
\* exists, as a directory or as a regular file, is removed and the job ends
\* with the target holding exactly the paths of the source and nothing of the
\* previous target; a target of the wrong type never ends the run.
C4_ExistingTargetIsOverwritten ==
    [][ (AtReplicationJob /\ IsDir(fs, TheJob.src) /\ PathExists(fs, TheJob.dst))
        => /\ err' = "none"
           /\ Shape(fs', TheJob.dst) = Shape(fs, TheJob.src)
      ]_vars

--------------------------------------------------------------------------
\* References of a text

Openers == {HQ, HT}
Closers == {"\"", "BQ}", NL, HQ, HT}

\* The reference that starts at the head of s: its opener and its path
RefHead(s) ==
    IF \E k \in 2..Len(s) : s[k] \in Closers
    THEN LET k == CHOOSE k \in 2..Len(s) :
                      s[k] \in Closers /\ \A m \in 2..(k - 1) : s[m] \notin Closers
         IN  SubSeq(s, 1, k - 1)
    ELSE s

\* The references of a text, in order
RECURSIVE RefsOf(_)
RefsOf(s) ==
    IF Len(s) = 0 THEN <<>>
    ELSE IF Head(s) \in Openers THEN <<RefHead(s)>> \o RefsOf(Tail(s))
    ELSE RefsOf(Tail(s))

\* The reference r begins with the path prefix, in its own shape
PointsTo(r, prefix) == StartsWith(r, <<r[1]>> \o prefix)

AdminOccupants == <<"/", "admin", "/", "occupants">>

\* Every replication job of the sequence
NumJobs(phase) ==
    IF phase = "deep_copy_routes" THEN Len(JobsOf(RoutesSources))
    ELSE IF phase = "deep_copy_remaining_modules" THEN Len(JobsOf(ModulesToCopy))
    ELSE IF phase = "duplicate_globals" THEN Len(JobsOf(GlobalsSources))
    ELSE IF phase = "duplicate_remaining" THEN Len(JobsOf(RemainingSources))
    ELSE Len(AdminWrappers)

Replications ==
    UNION { {ReplicationAt(ph, k) : k \in 1..NumJobs(ph)} : ph \in ReplicationPhases }

\* The prefix of the namespace a source belongs to: /occupant/, /admin/, or
\* the bare root
SourcePrefix(src) ==
    IF Len(src) > 1 THEN <<"/", src[1], "/">> ELSE <<"/", src[1]>>

--------------------------------------------------------------------------
\* C3: after the full pass sequence, in every .tsx file replicated under a
\* namespace other than its source's, no reference of either shape still
\* begins with the prefix of the namespace the file was copied from, except
\* references to /admin/occupants.
C3_NamespaceClosure ==
    pc = "done" =>
        \A j \in Replications :
            (j.dst[1] # j.src[1] /\ Printed(DeepCopied(j.src, j.dst))) =>
                \A q \in TsxFilesUnder(fs, j.dst) :
                    LET refs == RefsOf(fs[q].text)
                    IN  \A i \in 1..Len(refs) :
                            PointsTo(refs[i], SourcePrefix(j.src))
                                => PointsTo(refs[i], AdminOccupants)

--------------------------------------------------------------------------
\* C5: cleanup_shallow_wrappers deletes every existing <role>/<module>/page.tsx
\* of its table that holds both markers, "export default" and "Page from", and
\* leaves in place every page.tsx that lacks one of them.
HasBothMarkers(text) ==
    Contains(text, <<EXPORT_DEFAULT>>) /\ Contains(text, <<PAGE_FROM>>)

WrapperPages ==
    { <<JobsOf(RoutesSources)[k].role>> \o RoutesModulePath(JobsOf(RoutesSources)[k].src)
          \o <<"page.tsx">> : k \in 1..Len(JobsOf(RoutesSources)) }

C5_AliasPagesAreDeleted ==
    [][ (pc = "cleanup_shallow_wrappers" /\ pc' = "deep_copy_routes")
        => \A q \in WrapperPages :
              (PathExists(fs, q) /\ ~fs[q].dir) =>
                  IF HasBothMarkers(fs[q].text)
                  THEN ~PathExists(fs', q)
                  ELSE PathExists(fs', q) /\ fs'[q] = fs[q]
      ]_vars

--------------------------------------------------------------------------
\* C6: in fix_deep_links, for every role and every processed file, a reference
\* that pointed to /admin/occupants before the pass points to /admin/occupants
\* after it, in both shapes, and every other /admin/... reference is rewritten
\* to /<role>/... with the rest of its path kept.
C6_AdminOccupantsStaysPinned ==
    [][ (pc = "fix_deep_links" /\ pc' = "fix_global_links")
        => \A j \in {Pairs(Roles, DeepLinkModules)[k] :
                        k \in 1..Len(Pairs(Roles, DeepLinkModules))} :
              \A q \in TsxFilesUnder(fs, <<j.role>> \o j.module) :
                  LET before == RefsOf(fs[q].text)
                      after == RefsOf(fs'[q].text)
                  IN  /\ Len(after) = Len(before)
                      /\ \A i \in 1..Len(before) :
                            IF PointsTo(before[i], AdminOccupants)
                            THEN after[i] = before[i]
                            ELSE PointsTo(before[i], <<"/", "admin", "/">>)
                                 => after[i] = <<before[i][1], "/", j.role, "/">>
                                               \o SubSeq(before[i], 5, Len(before[i]))
      ]_vars

--------------------------------------------------------------------------
\* C7: across the whole pass sequence, the content of every file inside a
\* source module directory that is copied from is never modified.
SourceModules ==
    { <<"occupant", "cleaning">>, <<"occupant", "evaluation">>, <<"occupant", "events">>,
      <<"occupant", "payments">>, <<"occupant", "committees">>, <<"admin", "fines">>,
      <<"admin", "finance">>, <<"admin", "occupants">>, <<"admin", "rooms">> }

C7_SourcesAreReadOnly ==
    [][ \A q \in DOMAIN fs :
            ((\E d \in SourceModules : IsPrefix(d, q)) /\ PathExists(fs', q))
                => fs'[q] = fs[q]
      ]_vars

--------------------------------------------------------------------------
\* C8: when duplicate_globals completes, none of the top-level directories
\* reporting, profile, settings, ai exists, and each of them is removed only
\* once every namespace that consumes it (all six roles; for ai every role
\* but occupant) holds its own full copy.
Consumers(root) ==
    IF root = "ai"
    THEN {"admin", "student_assistant", "officer", "treasurer", "adviser"}
    ELSE {"admin", "student_assistant", "officer", "treasurer", "adviser", "occupant"}

SharedRoots == {"reporting", "profile", "settings", "ai"}

C8_GlobalRootsRemovedAfterCopies ==
    [][ /\ (pc = "remove_global_roots" /\ pc' = "duplicate_remaining")
            => \A g \in SharedRoots : ~PathExists(fs', <<g>>)
        /\ \A g \in SharedRoots :
              (PathExists(fs, <<g>>) /\ ~PathExists(fs', <<g>>))
                  => \A r \in Consumers(g) : Subtree(fs, <<r, g>>) = Subtree(fs, <<g>>)
      ]_vars

\* duplicate_globals has completed the first run, having removed all four
\* roots after copying over a target that existed before.
C8_Witness ==
    /\ pc = "duplicate_remaining" /\ job = 1 /\ run = 1 /\ err = "none"
    /\ \A g \in SharedRoots :
          /\ Printed(<<"Removed original global root", <<g>>>>)
          /\ ~PathExists(fs, <<g>>)
          /\ \A r \in Consumers(g) :
                /\ Printed(DeepCopied(<<g>>, <<r, g>>))
                /\ PathExists(fs, <<r, g, "page.tsx">>)
                /\ fs[<<r, g, "page.tsx">>].text = PageText(<<g>>, RefQuotedReporting)

--------------------------------------------------------------------------
\* C10: after the full pass sequence, for every role R of student_assistant,
\* officer, treasurer, adviser, each template reference /evaluation/... of
\* occupant/evaluation/page.tsx that lacks a namespace stands in
\* R/evaluation/page.tsx as /R/evaluation/... with the rest of its path
\* unchanged, and one more link-fix pass leaves it as it is.
BareEvaluation == <<HT, "/", "evaluation", "/">>

C10_EvaluationLinksPrefixedOnce ==
    pc = "done" =>
        \A k \in 1..Len(Roles) :
            LET R == Roles[k]
                src == <<"occupant", "evaluation", "page.tsx">>
                dst == <<R, "evaluation", "page.tsx">>
            IN  (PathExists(fs, src) /\ ~fs[src].dir) =>
                    /\ PathExists(fs, dst)
                    /\ LET s == RefsOf(fs[src].text)
                           t == RefsOf(fs[dst].text)
                           again == RefsOf(FixDeepLinksText(R, fs[dst].text))
                       IN  /\ Len(t) = Len(s)
                           /\ Len(again) = Len(s)
                           /\ \A i \in 1..Len(s) :
                                 StartsWith(s[i], BareEvaluation) =>
                                     /\ t[i] = <<HT, "/", R, "/", "evaluation", "/">>
                                                \o SubSeq(s[i], 5, Len(s[i]))
                                     /\ again[i] = t[i]

\* The sequence is done, the source page holds a bare template reference and
\* the adviser's copy holds it under /adviser/evaluation/.
C10_Witness ==
    /\ pc = "done"
    /\ PathExists(fs, <<"occupant", "evaluation", "page.tsx">>)
    /\ fs[<<"occupant", "evaluation", "page.tsx">>].text
           = PageText(<<"occupant", "evaluation">>,
                      RefTemplateEvaluation \o <<NL>> \o RefTemplateEvaluation)
    /\ PathExists(fs, <<"adviser", "evaluation", "page.tsx">>)
    /\ Len(RefsOf(fs[<<"adviser", "evaluation", "page.tsx">>].text)) = 2
    /\ RefsOf(fs[<<"adviser", "evaluation", "page.tsx">>].text)[2]
           = <<HT, "/", "adviser", "/", "evaluation", "/", "${id}", "/", "rate">>

--------------------------------------------------------------------------
\* The import fixup on its own: the listed files with one import line each

ImportNames == {"redirect", "useRouter", "usePathname", "redirectTo"}

\* The import lists: one to MaxSymbols names, none twice
SymbolLists ==
    { l \in UNION {[1..n -> ImportNames] : n \in 1..MaxSymbols} :
        \A i, k \in 1..Len(l) : i # k => l[i] # l[k] }

\* import { a, b } from "m";  written with or without the spaces inside the
\* braces and after the commas, with or without a comma after the last name
ImportLine(syms, compact, trailing, module) ==
    LET gap == IF compact THEN <<>> ELSE <<SP>>
        names[i \in 0..Len(syms)] ==
            IF i = 0 THEN <<>>
            ELSE names[i - 1] \o (IF i > 1 THEN <<",">> \o gap ELSE <<>>) \o <<syms[i]>>
    IN  <<"import", SP, "{">> \o gap \o names[Len(syms)]
        \o (IF trailing THEN <<",">> ELSE <<>>) \o gap
        \o <<"}", SP, "from", SP, module, ";">>

ImportLines ==
    { ImportLine(l, c, t, m) :
        l \in SymbolLists, c \in BOOLEAN, t \in BOOLEAN, m \in {NAV, OTHER_MODULE} }

\* A page with the line between two other lines
ImportPage(line) == <<"//", "payments", NL>> \o line \o <<NL>> \o RefQuotedOccupant

\* The listed files, and beside them one the list does not name
UnlistedFile == <<"admin", "payments", "page.tsx">>

ImportTree(line, absent) ==
    LET files == ({FilesToFix[i] : i \in 1..Len(FilesToFix)} \cup {UnlistedFile})
                 \ {absent}
        dirs == UNION {Ancestors(q) : q \in files}
    IN  [q \in files \cup dirs |->
            IF q \in files THEN FileNode(ImportPage(line)) ELSE DirNode]

InitImports ==
    /\ fs \in { ImportTree(line, absent) :
                  line \in ImportLines,
                  absent \in {NoPath, FilesToFix[1], FilesToFix[2]} }
    /\ pc = "fix_unused_imports"
    /\ job = 1
    /\ run = 1
    /\ console = <<>>
    /\ err = "none"
    /\ prev = <<>>

NextImports == FixUnusedImports

SpecImports == InitImports /\ [][NextImports]_vars

--------------------------------------------------------------------------
\* C9: for every listed file that exists, fix_unused_imports removes a line
\* importing from "next/navigation" whose only imported symbol is redirect,
\* keeps with the same symbols in the same order minus redirect a line that
\* imports others alongside it, and leaves every other line unchanged; files
\* outside the list are never written.

\* The names between the braces of a line, in order
Symbols(line) ==
    IF (\E i \in 1..Len(line) : line[i] = "{") /\ (\E i \in 1..Len(line) : line[i] = "}")
    THEN LET a == CHOOSE i \in 1..Len(line) :
                      line[i] = "{" /\ \A k \in 1..(i - 1) : line[k] # "{"
             b == CHOOSE i \in 1..Len(line) :
                      line[i] = "}" /\ \A k \in 1..(i - 1) : line[k] # "}"
             IsName(t) == t \notin {SP, ","}
         IN  SelectSeq(SubSeq(line, a + 1, b - 1), IsName)
    ELSE <<>>

ImportsRedirect(line) ==
    /\ Contains(line, <<"from", SP, NAV>>)
    /\ \E i \in 1..Len(Symbols(line)) : Symbols(line)[i] = "redirect"

OnlyRedirect(line) == ImportsRedirect(line) /\ Symbols(line) = <<"redirect">>

\* The lines `after` are what the claim allows for the lines `before`
RECURSIVE LinesFixed(_, _)
LinesFixed(before, after) ==
    IF Len(before) = 0 THEN Len(after) = 0
    ELSE IF OnlyRedirect(before[1]) THEN LinesFixed(Tail(before), after)
    ELSE /\ Len(after) > 0
         /\ IF ImportsRedirect(before[1])
            THEN LET NotRedirect(t) == t # "redirect"
                 IN  /\ Symbols(after[1]) = SelectSeq(Symbols(before[1]), NotRedirect)
                     /\ Contains(after[1], <<"from", SP, NAV>>)
            ELSE after[1] = before[1]
         /\ LinesFixed(Tail(before), Tail(after))

C9_RedirectImportRemoved ==
    [][ (pc = "fix_unused_imports" /\ err = "none")
        => LET target == FilesToFix[job]
           IN  /\ DOMAIN fs' = DOMAIN fs
               /\ \A q \in DOMAIN fs : q # target => fs'[q] = fs[q]
               /\ (PathExists(fs, target) /\ ~fs[target].dir)
                     => LinesFixed(SplitLines(fs[target].text),
                                   SplitLines(fs'[target].text))
      ]_vars

\* The same, for import lines without a comma after the last name
NoTrailingComma(text) ==
    ~Contains(text, <<",", "}">>) /\ ~Contains(text, <<",", SP, "}">>)

C9_HoldsWithoutTrailingComma ==
    [][ (pc = "fix_unused_imports" /\ err = "none")
        => LET target == FilesToFix[job]
           IN  (PathExists(fs, target) /\ ~fs[target].dir
                   /\ NoTrailingComma(fs[target].text))
                     => LinesFixed(SplitLines(fs[target].text),
                                   SplitLines(fs'[target].text))
      ]_vars

--------------------------------------------------------------------------
\* C11: in every replication job of every script an existing target is
\* removed only when the source directory exists: after the job, whether it
\* copied, skipped or raised, the target is either exactly what it was before
\* the job or holds a full copy of the source; no job leaves a target deleted
\* without a replacement.
TargetKeptOrReplaced(f, g, j) ==
    \/ Subtree(g, j.dst) = Subtree(f, j.dst)
    \/ /\ PathExists(f, j.src)
       /\ PathExists(g, j.dst)
       /\ Shape(g, j.dst) = Shape(f, j.src)

C11_TargetRemovedOnlyWithSource ==
    [][ AtReplicationJob => TargetKeptOrReplaced(fs, fs', TheJob) ]_vars

\* The same statement for the four scripts that test the source first
C11_HoldsOutsideFinalCleanup ==
    [][ (AtReplicationJob /\ pc # "final_cleanup")
        => TargetKeptOrReplaced(fs, fs', TheJob) ]_vars

====
